---- MODULE Spec2Model ----
(***************************************************************************)
(* PharmAI backend gateway: an Express server (server.js) that proxies     *)
(* POST /api/model/predict to a Hugging Face inference endpoint            *)
(* (routes/modelRoutes.js, services/hfservice.js; an ES-module and a       *)
(* CommonJS implementation of each are present) and /api/agent/* to the    *)
(* Python agent service (agentRoutes.js).                                  *)
(*                                                                         *)
(* Bodies are JSON values, as express.json() and axios hand them to the    *)
(* handlers and as res.json() takes them: a JS object is a record of its   *)
(* own properties, a string s is [str |-> s], a number n is [num |-> n],   *)
(* null is [null |-> TRUE] and undefined (also: an absent property) is     *)
(* [undefined |-> TRUE].                                                   *)
(*                                                                         *)
(* Every async handler is two steps: the part up to its await (Start), and *)
(* the continuation (Resume) whose input is the settlement of the awaited  *)
(* axios promise.                                                          *)
(***************************************************************************)
EXTENDS Integers, Sequences, FiniteSets, Bags, TLC

\* ---------------------------------------------------------------- bounds
\* Requests the server handles concurrently.
MaxInFlight == 2

\* ------------------------------------------------------------- JS values
Undefined == [undefined |-> TRUE]

Null == [null |-> TRUE]

S(s) == [str |-> s]

N(n) == [num |-> n]

\* o.k, and the destructuring const { k } = o
Get(o, k) == IF k \in DOMAIN o THEN o[k] ELSE Undefined

\* o?.k
OptGet(o, k) == IF o = Undefined \/ o = Null THEN Undefined ELSE Get(o, k)

\* ToBoolean(v)
Truthy(v) ==
  ~ \/ v = Undefined
    \/ v = Null
    \/ v = S("")
    \/ v = N(0)
    \/ v = [bool |-> FALSE]

\* a || b
Or(a, b) == IF Truthy(a) THEN a ELSE b

\* --------------------------------------------------------- configuration
PYTHON_BACKEND_URL == "http://localhost:7860"

RUN_TIMEOUT == 120000

SESSION_TIMEOUT == 5000

HEALTH_TIMEOUT == 3000

\* axios without a timeout option: no timeout
NO_TIMEOUT == 0

\* ------------------------------------------------------------- the state
\* An exchange is one inbound request being handled:
\*   pc    "awaiting" (the handler is suspended at its await) or "done"
\*   req   the inbound request
\*   out   the outbound calls made for it, in order
\*   got   the settlement of the awaited outbound call
\*   resp  the responses written to the client, in order
\* The handlers share nothing, so the requests in flight are a bag of
\* exchanges.
VARIABLES
  server,      \* "starting" | "listening" | "exited" (server.js start-up)
  db,          \* connectDB(): "connecting" | "connected" | "failed"
  exits,       \* the codes given to process.exit, in order
  agentRoutes, \* "router" (require("./agentRoutes") loaded) | "null" (it threw)
  sessions,    \* the agent service's session store: ids that have a history
  inflight     \* the bag of exchanges in flight

vars == <<server, db, exits, agentRoutes, sessions, inflight>>

NoOutcome == [none |-> TRUE]

Init ==
  /\ server = "starting"
  /\ db = "connecting"
  /\ exits = << >>
  /\ agentRoutes \in {"router", "null"}
  /\ sessions = {}
  /\ inflight = EmptyBag

\* res.status(s).json(b)
Response(s, b) == [status |-> s, body |-> b]

\* ---------------------------------------------------------------- axios
\* An upstream HTTP response.
Http(s, d) == [http |-> [status |-> s, data |-> d]]

\* No upstream HTTP response: the connection was refused.
Refused == [neterr |-> "ECONNREFUSED"]

\* No upstream HTTP response within the call's timeout.
TimedOut == [neterr |-> "ECONNABORTED"]

\* The URL given to axios is not a URL: axios rejects without a request.
InvalidUrl == [neterr |-> "ERR_INVALID_URL"]

IsHttp(o) == "http" \in DOMAIN o

\* axios' default validateStatus
ValidateStatus(s) == s >= 200 /\ s < 300

\* The promise resolves with the response ...
Resolved(o) == IsHttp(o) /\ ValidateStatus(o.http.status)

\* ... or rejects with this error.
AxiosError(o, c) ==
  IF IsHttp(o)
  THEN [response |-> [status |-> N(o.http.status), data |-> o.http.data],
        message |-> S("Request failed with status code " \o ToString(o.http.status))]
  ELSE IF o = TimedOut
  THEN [code |-> S("ECONNABORTED"),
        message |-> S("timeout of " \o ToString(c.timeout) \o "ms exceeded")]
  ELSE IF o = Refused
  THEN [code |-> S("ECONNREFUSED"), message |-> S("connect ECONNREFUSED")]
  ELSE [code |-> S("ERR_INVALID_URL"), message |-> S("Invalid URL")]

\* ------------------------------------------------- server.js: error handler
\* A catch-all that hides the error's message.
ErrorHandlerGeneric(err) ==
  Response(Or(Get(err, "statusCode"), N(500)).num,
           [error |-> S("Internal Server Error")])

\* A catch-all whose fallback status is 503.
ErrorHandlerUnavailable(err) ==
  Response(Or(Get(err, "statusCode"), N(503)).num,
           [error |-> Or(Get(err, "message"), S("Internal Server Error"))])

ErrorHandler(err) ==
  Response(Or(Get(err, "statusCode"), N(500)).num,
           [error |-> Or(Get(err, "message"), S("Internal Server Error"))])

\* ------------------------------------------------------ server.js: start-up
\* The start-up function is suspended at await connectDB() until the
\* connection to the document store is made or has failed.
ConnectDB(outcome) ==
  /\ db = "connecting"
  /\ db' = outcome
  /\ UNCHANGED <<server, exits, agentRoutes, sessions, inflight>>

\* A start-up that calls connectDB() without awaiting it and listens at once.
ListenUnawaited ==
  /\ server = "starting"
  /\ server' = "listening"
  /\ UNCHANGED <<db, exits, agentRoutes, sessions, inflight>>

\* connectDB() resolved: app.listen(PORT)
ConnectDBOk ==
  /\ server = "starting"
  /\ db = "connected"
  /\ server' = "listening"
  /\ UNCHANGED <<db, exits, agentRoutes, sessions, inflight>>

\* connectDB() rejected: the catch block, process.exit(1)
ConnectDBFail ==
  /\ server = "starting"
  /\ db = "failed"
  /\ server' = "exited"
  /\ exits' = Append(exits, 1)
  /\ UNCHANGED <<db, agentRoutes, sessions, inflight>>

\* -------------------------------------------- the agent service (upstream)
\* The Python agent service is reached over HTTP only.  Its replies are the
\* ones its API notes describe (README: POST /run, GET /session/{id}/history,
\* DELETE /session/{id}, GET /health; test_memory.md: the expected bodies),
\* plus the failures any HTTP service can produce.
SessionIds == {"s1", "a/b"}

RunUrl == PYTHON_BACKEND_URL \o "/run"

HistoryUrl(session_id) == PYTHON_BACKEND_URL \o "/session/" \o session_id \o "/history"

DeleteUrl(session_id) == PYTHON_BACKEND_URL \o "/session/" \o session_id

HealthUrl == PYTHON_BACKEND_URL \o "/health"

\* The session a /session/... call addresses.
SidOf(c) == CHOOSE s \in SessionIds : c.url \in {HistoryUrl(s), DeleteUrl(s)}

Brief(session_id) == [session_id |-> session_id, decision_brief |-> S("# FINAL DECISION BRIEF")]

History(sid, n) == [session_id |-> S(sid), message_count |-> N(n)]

Cleared(sid) == [session_id |-> S(sid), status |-> S("cleared")]

NotFound == [detail |-> S("Session not found")]

Settle(o, store) == [o |-> o, store |-> store]

\* POST /run: answers with the brief and remembers the session, or fails.
AgentRun(c, store) ==
  LET sid == c.data.session_id
      created == IF "str" \in DOMAIN sid THEN store \cup {sid.str} ELSE store
  IN  { Settle(Http(200, Brief(sid)), created),
        Settle(Http(201, Brief(sid)), created),
        Settle(Http(422, [detail |-> S("query too long")]), store),
        Settle(Http(500, [error |-> S("agent failed")]), store),
        Settle(Http(500, S("Internal Server Error")), store),
        Settle(Refused, store),
        Settle(TimedOut, created) }

\* GET /session/{id}/history: a session without history is reported either as
\* an empty history or as not found.
AgentHistory(c, store) ==
  LET sid == SidOf(c)
  IN  (IF sid \in store
       THEN { Settle(Http(200, History(sid, 2)), store) }
       ELSE { Settle(Http(200, History(sid, 0)), store),
              Settle(Http(404, NotFound), store) })
      \cup { Settle(Http(500, [error |-> S("agent failed")]), store),
             Settle(Refused, store),
             Settle(TimedOut, store) }

\* DELETE /session/{id}
AgentDelete(c, store) ==
  LET sid == SidOf(c)
  IN  (IF sid \in store
       THEN { Settle(Http(200, Cleared(sid)), store \ {sid}) }
       ELSE { Settle(Http(200, Cleared(sid)), store),
              Settle(Http(404, NotFound), store) })
      \cup { Settle(Http(500, [error |-> S("agent failed")]), store),
             Settle(Refused, store),
             Settle(TimedOut, store \ {sid}) }

\* GET /health
AgentHealth(c, store) ==
  { Settle(Http(200, [status |-> S("ok")]), store),
    Settle(Http(200, [status |-> S("degraded")]), store),
    Settle(Http(500, [error |-> S("agent failed")]), store),
    Settle(Refused, store),
    Settle(TimedOut, store) }

\* A payload built with session_id ?? null: only an absent or null id
\* becomes null.
RunCallNullish(body) ==
  [method |-> "POST", url |-> RunUrl,
   data |-> [session_id |-> IF Get(body, "session_id") \in {Undefined, Null}
                             THEN Null
                             ELSE Get(body, "session_id"),
             query |-> Get(body, "query")],
   headers |-> [ContentType |-> S("application/json")],
   timeout |-> RUN_TIMEOUT]

\* ------------------------------------------------- agentRoutes.js: the calls
\* The inbound bodies of POST /api/agent/run.
RunBodies ==
  { << >>,
    [session_id |-> S("s1")],
    [query |-> Null],
    [query |-> S("")],
    [session_id |-> S("s1"), query |-> S("")],
    [query |-> S("q1")],
    [session_id |-> Null, query |-> S("q1")],
    [session_id |-> S(""), query |-> S("q1")],
    [session_id |-> S("s1"), query |-> S("q1")] }

RunCall(body) ==
  [method |-> "POST",
   url |-> RunUrl,
   data |-> [session_id |-> Or(Get(body, "session_id"), Null),
             query |-> Get(body, "query")],
   headers |-> [ContentType |-> S("application/json")],
   timeout |-> RUN_TIMEOUT]

HistoryCall(session_id) ==
  [method |-> "GET", url |-> HistoryUrl(session_id), timeout |-> SESSION_TIMEOUT]

DeleteCall(session_id) ==
  [method |-> "DELETE", url |-> DeleteUrl(session_id), timeout |-> SESSION_TIMEOUT]

HealthCall ==
  [method |-> "GET", url |-> HealthUrl, timeout |-> HEALTH_TIMEOUT]

\* ---------------------------------------- agentRoutes.js: the continuations
\* A relay that wraps the upstream body as the model route does.
RunRelayWrapped(response) == Response(200, [success |-> [bool |-> TRUE], result |-> response.data])

\* return res.status(200).json(response.data)
RunRelay(response) == Response(200, response.data)

\* An upstream error answered with a fixed 500.
RunUpstreamErrorFixed(err) ==
  Response(500,
           [error |-> Or(Or(OptGet(err.response.data, "detail"),
                            OptGet(err.response.data, "error")),
                         S("Agent execution failed")),
            details |-> err.response.data])

\* if (err.response): the Python backend returned an error
RunUpstreamError(err) ==
  Response(err.response.status.num,
           [error |-> Or(Or(OptGet(err.response.data, "detail"),
                            OptGet(err.response.data, "error")),
                         S("Agent execution failed")),
            details |-> err.response.data])

\* A refusal test that takes a timeout for a refusal as well.
IsRefusedOrTimedOut(err) ==
  Get(err, "code") \in {S("ECONNREFUSED"), S("ECONNABORTED")}

\* A test for the wrong error code.
IsRefusedWrongCode(err) == Get(err, "code") = S("ECONNRESET")

\* if (err.code === "ECONNREFUSED")
IsRefused(err) == Get(err, "code") = S("ECONNREFUSED")

BackendDown ==
  Response(503,
           [error |-> S("Python backend is not running. Start it with: uvicorn app:app --port 7860")])

\* A run handler that keeps the upstream response in a variable shared by
\* all requests: a concurrent request's response can be the one relayed.
RunResultShared(o, c) ==
  LET others == {y \in BagToSet(inflight) :
                   /\ y.pc = "done"
                   /\ y.req.route = "run"
                   /\ y.got # NoOutcome
                   /\ Resolved(y.got.o)}
  IN  IF Resolved(o)
      THEN IF others # {}
           THEN RunRelay((CHOOSE y \in others : TRUE).got.o.http)
           ELSE RunRelay(o.http)
      ELSE LET err == AxiosError(o, c)
           IN  IF Truthy(Get(err, "response"))
               THEN RunUpstreamError(err)
               ELSE IF IsRefused(err)
               THEN BackendDown
               ELSE ErrorHandler(err)

\* router.post("/run"): what the handler writes once the call has settled.
RunResult(o, c) ==
  IF Resolved(o)
  THEN RunRelay(o.http)
  ELSE LET err == AxiosError(o, c)
       IN  IF Truthy(Get(err, "response"))
           THEN RunUpstreamError(err)
           ELSE IF IsRefused(err)
           THEN BackendDown
           ELSE ErrorHandler(err)

\* router.get("/session/:session_id/history")
HistoryResult(o, c) ==
  IF Resolved(o)
  THEN Response(200, o.http.data)
  ELSE LET err == AxiosError(o, c)
       IN  IF Truthy(Get(err, "response"))
           THEN Response(err.response.status.num,
                         [error |-> S("Failed to retrieve session history"),
                          details |-> err.response.data])
           ELSE ErrorHandler(err)

\* A delete route that wraps the upstream body on success.
DeleteResultWrapped(o, c) ==
  IF Resolved(o)
  THEN Response(200, [success |-> [bool |-> TRUE], result |-> o.http.data])
  ELSE LET err == AxiosError(o, c)
       IN  IF Truthy(Get(err, "response"))
           THEN Response(err.response.status.num,
                         [error |-> S("Failed to clear session"),
                          details |-> err.response.data])
           ELSE ErrorHandler(err)

\* A delete route that remembers the sessions it has cleared and answers a
\* repeated DELETE itself.
DeleteResultRemembering(o, c) ==
  IF \E y \in BagToSet(inflight) :
       y.pc = "done" /\ y.out = <<c>> /\ y.resp[1].status = 200
  THEN Response(404, [error |-> S("Session already cleared")])
  ELSE IF Resolved(o)
  THEN Response(200, o.http.data)
  ELSE LET err == AxiosError(o, c)
       IN  IF Truthy(Get(err, "response"))
           THEN Response(err.response.status.num,
                         [error |-> S("Failed to clear session"),
                          details |-> err.response.data])
           ELSE ErrorHandler(err)

\* router.delete("/session/:session_id")
DeleteResult(o, c) ==
  IF Resolved(o)
  THEN Response(200, o.http.data)
  ELSE LET err == AxiosError(o, c)
       IN  IF Truthy(Get(err, "response"))
           THEN Response(err.response.status.num,
                         [error |-> S("Failed to clear session"),
                          details |-> err.response.data])
           ELSE ErrorHandler(err)

\* A health route whose failure body carries the message only.
HealthResultMessageOnly(o, c) ==
  IF Resolved(o)
  THEN Response(200,
                [status |-> S("ok"),
                 python_backend |-> o.http.data,
                 backend_url |-> S(PYTHON_BACKEND_URL)])
  ELSE Response(503,
                [status |-> S("error"),
                 backend_url |-> S(PYTHON_BACKEND_URL),
                 message |-> AxiosError(o, c).message])

\* A health route that relays the upstream's status on failure.
HealthResultRelayed(o, c) ==
  IF Resolved(o)
  THEN Response(200,
                [status |-> S("ok"),
                 python_backend |-> o.http.data,
                 backend_url |-> S(PYTHON_BACKEND_URL)])
  ELSE LET err == AxiosError(o, c)
       IN  Response(Or(OptGet(OptGet(err, "response"), "status"), N(503)).num,
                    [status |-> S("error"),
                     error |-> S("Python backend unreachable"),
                     backend_url |-> S(PYTHON_BACKEND_URL),
                     message |-> err.message])

\* router.get("/health")
HealthResult(o, c) ==
  IF Resolved(o)
  THEN Response(200,
                [status |-> S("ok"),
                 python_backend |-> o.http.data,
                 backend_url |-> S(PYTHON_BACKEND_URL)])
  ELSE LET err == AxiosError(o, c)
       IN  Response(503,
                    [status |-> S("error"),
                     error |-> S("Python backend unreachable"),
                     backend_url |-> S(PYTHON_BACKEND_URL),
                     message |-> err.message])

\* ------------------------------------- the inference endpoint (upstream)
\* The Hugging Face endpoint: it may echo the payload, answer with a
\* prediction, fail with a status (with or without a body), or refuse the
\* connection.  The calls carry no timeout, so none ever times out.
HFService(c) ==
  { Http(200, c.data),
    Http(200, [prediction |-> S("example output")]),
    Http(503, [error |-> S("Model is loading")]),
    Http(500, S("")),
    Refused }

\* The inbound bodies of POST /api/model/predict.
PredictBodies ==
  { [input |-> S("x")],
    [inputs |-> S("sample medical text"), parameters |-> [top_k |-> N(1)]] }

\* process.env as read by the ES-module service ...
EnvES == [HF_MODEL_URL : {Undefined, S("https://hf.space/predict")},
          HF_API_KEY : {Undefined, S("hf_key")}]

\* ... and by the CommonJS service
EnvCJS == [HF_MODEL_URL : {Undefined, S("https://hf.space/predict")},
           HF_API_TOKEN : {Undefined, S("hf_token")}]

\* ----------------------------- services/hfservice.js, ES-module variant
\* The axios.post of callHFModel(input).
HFCallES(input, env) ==
  [method |-> "POST",
   url |-> env.HF_MODEL_URL.str,
   data |-> [input |-> input],
   headers |-> [ContentType |-> S("application/json"),
                Authorization |-> S("Bearer " \o Or(env.HF_API_KEY, S("")).str)],
   timeout |-> NO_TIMEOUT]

\* callHFModel(input): returns response.data, or rethrows the error.
CallHFModelES(o, c) ==
  IF Resolved(o) THEN [value |-> o.http.data] ELSE [thrown |-> AxiosError(o, c)]

\* ------------------------------- services/hfservice.js, CommonJS variant
\* The axios.post of callHFModel(payload).
HFCall(payload, env) ==
  [method |-> "POST",
   url |-> env.HF_MODEL_URL.str,
   data |-> payload,
   headers |-> IF Truthy(env.HF_API_TOKEN)
               THEN [ContentType |-> S("application/json"),
                     Authorization |-> S("Bearer " \o env.HF_API_TOKEN.str)]
               ELSE [ContentType |-> S("application/json")],
   timeout |-> NO_TIMEOUT]

\* callHFModel(payload) when HF_MODEL_URL is missing.
MissingUrl ==
  [thrown |-> [message |-> S("HF_MODEL_URL is missing in .env"), statusCode |-> N(503)]]

\* callHFModel(payload): returns resp.data, or throws an Error carrying the
\* status and the message `HF call failed (${status}): ${JSON.stringify(data)}`.
CallHFModel(o, c) ==
  IF Resolved(o)
  THEN [value |-> o.http.data]
  ELSE LET err == AxiosError(o, c)
           status == Or(OptGet(OptGet(err, "response"), "status"), N(500))
           data == Or(OptGet(OptGet(err, "response"), "data"), [message |-> err.message])
       IN  [thrown |-> [message |-> [tpl |-> "HF call failed (${status}): ${JSON.stringify(data)}",
                                     status |-> status,
                                     data |-> data],
                        statusCode |-> status]]

\* --------------------------------------------------- routes/modelRoutes.js
\* A model route that leaves the result out of its answer.
PredictResultESNoResult(x) ==
  IF "value" \in DOMAIN x
  THEN Response(200, [success |-> [bool |-> TRUE]])
  ELSE Response(500, [success |-> [bool |-> FALSE], error |-> S("Inference failed")])

\* router.post("/predict"), ES-module variant
PredictResultES(x) ==
  IF "value" \in DOMAIN x
  THEN Response(200, [success |-> [bool |-> TRUE], result |-> x.value])
  ELSE Response(500, [success |-> [bool |-> FALSE], error |-> S("Inference failed")])

\* router.post("/predict"), CommonJS variant
PredictResult(x) ==
  IF "value" \in DOMAIN x
  THEN Response(200, x.value)
  ELSE ErrorHandler(x.thrown)

\* ------------------------------------------------------------ the steps
Exchanges == BagToSet(inflight)

\* A request can be taken: the server listens and has room for it.
Accepting == server = "listening" /\ BagCardinality(inflight) < MaxInFlight

\* The handler of a new request rq runs up to its await: the calls go out.
Await(rq, calls) ==
  /\ inflight' = inflight (+) SetToBag({[pc |-> "awaiting", req |-> rq, out |-> calls,
                                         got |-> NoOutcome, resp |-> << >>]})
  /\ UNCHANGED <<server, db, exits, agentRoutes, sessions>>

\* A handler that validates only after its call has gone out.
RejectAfterCall(rq, response) ==
  /\ inflight' = inflight (+) SetToBag({[pc |-> "done", req |-> rq,
                                         out |-> IF rq.route = "run"
                                                 THEN <<RunCall(rq.body)>>
                                                 ELSE << >>,
                                         got |-> NoOutcome, resp |-> <<response>>]})
  /\ UNCHANGED <<server, db, exits, agentRoutes, sessions>>

\* The handler of a new request rq responds without an outbound call.
Reject(rq, response) ==
  /\ inflight' = inflight (+) SetToBag({[pc |-> "done", req |-> rq, out |-> << >>,
                                         got |-> NoOutcome, resp |-> <<response>>]})
  /\ UNCHANGED <<server, db, exits, agentRoutes, sessions>>

\* A continuation whose failure path ends without writing a response.
SettledSilent(x, g, store, response) ==
  /\ inflight' = (inflight (-) SetToBag({x}))
                   (+) SetToBag({IF Resolved(g.o)
                                 THEN [x EXCEPT !.pc = "done", !.got = g,
                                                !.resp = Append(@, response)]
                                 ELSE [x EXCEPT !.pc = "done", !.got = g]})
  /\ sessions' = store
  /\ UNCHANGED <<server, db, exits, agentRoutes>>

\* A continuation that repeats a failed call once before it responds.
SettledRetrying(x, g, store, response) ==
  /\ inflight' = (inflight (-) SetToBag({x}))
                   (+) SetToBag({IF ~Resolved(g.o) /\ Len(x.out) = 1
                                 THEN [x EXCEPT !.out = Append(@, @[1])]
                                 ELSE [x EXCEPT !.pc = "done", !.got = g,
                                                !.resp = Append(@, response)]})
  /\ sessions' = store
  /\ UNCHANGED <<server, db, exits, agentRoutes>>

\* The awaited call of exchange x settles as g, the upstream's store becomes
\* store, and the handler's continuation responds.
Settled(x, g, store, response) ==
  /\ inflight' = (inflight (-) SetToBag({x}))
                   (+) SetToBag({[x EXCEPT !.pc = "done", !.got = g,
                                           !.resp = Append(@, response)]})
  /\ sessions' = store
  /\ UNCHANGED <<server, db, exits, agentRoutes>>

Awaiting(x, route) == x.pc = "awaiting" /\ x.req.route = route

\* A validation that catches the absent query only.
RunRejectsAbsentOnly(body) == Get(body, "query") = Undefined

\* if (!query)
RunRejects(body) == ~Truthy(Get(body, "query"))

BadRequest == Response(400, [error |-> S("query is required")])

\* if (agentRoutes) app.use("/api/agent", agentRoutes)
Mounted == agentRoutes = "router"

\* POST /api/agent/run
RunStart(body) ==
  /\ Accepting
  /\ Mounted
  /\ IF RunRejects(body)
     THEN Reject([route |-> "run", body |-> body], BadRequest)
     ELSE Await([route |-> "run", body |-> body], <<RunCall(body)>>)

RunResume(x) ==
  /\ Awaiting(x, "run")
  /\ \E s \in AgentRun(x.out[1], sessions) :
       Settled(x, [o |-> s.o], s.store, RunResult(s.o, x.out[1]))

\* GET /api/agent/session/:session_id/history
HistoryStart(session_id) ==
  /\ Accepting
  /\ Mounted
  /\ Await([route |-> "history", params |-> [session_id |-> session_id]],
           <<HistoryCall(session_id)>>)

HistoryResume(x) ==
  /\ Awaiting(x, "history")
  /\ \E s \in AgentHistory(x.out[1], sessions) :
       Settled(x, [o |-> s.o, known |-> SidOf(x.out[1]) \in sessions], s.store,
               HistoryResult(s.o, x.out[1]))

\* DELETE /api/agent/session/:session_id
DeleteStart(session_id) ==
  /\ Accepting
  /\ Mounted
  /\ Await([route |-> "delete", params |-> [session_id |-> session_id]],
           <<DeleteCall(session_id)>>)

DeleteResume(x) ==
  /\ Awaiting(x, "delete")
  /\ \E s \in AgentDelete(x.out[1], sessions) :
       Settled(x, [o |-> s.o, known |-> SidOf(x.out[1]) \in sessions], s.store,
               DeleteResult(s.o, x.out[1]))

\* GET /api/agent/health
HealthStart ==
  /\ Accepting
  /\ Mounted
  /\ Await([route |-> "health"], <<HealthCall>>)

HealthResume(x) ==
  /\ Awaiting(x, "health")
  /\ \E s \in AgentHealth(x.out[1], sessions) :
       Settled(x, [o |-> s.o], s.store, HealthResult(s.o, x.out[1]))

\* else app.use("/api/agent", ...): every agent request is answered 501.
NotImplemented ==
  Response(501, [error |-> S("Agent routes not implemented yet. Next step: add agentRoutes.js")])

AgentFallback ==
  /\ Accepting
  /\ ~Mounted
  /\ Reject([route |-> "agent"], NotImplemented)

\* GET /health
AppHealth ==
  /\ Accepting
  /\ Reject([route |-> "apphealth"], Response(200, [status |-> S("ok")]))

\* GET /
AppRoot ==
  /\ Accepting
  /\ Reject([route |-> "root"],
            Response(200, [message |-> S("Backend is running"),
                           routes |-> [health |-> S("/health"),
                                       model_predict |-> S("/api/model/predict"),
                                       agent |-> S("/api/agent/*")]]))

\* POST /api/model/predict, ES-module variant: axios rejects a missing URL
\* without sending anything.
PredictStartES(body, env) ==
  /\ Accepting
  /\ Await([route |-> "predictES", body |-> body, env |-> env],
           IF env.HF_MODEL_URL = Undefined THEN << >> ELSE <<HFCallES(body, env)>>)

PredictResumeES(x) ==
  /\ Awaiting(x, "predictES")
  /\ IF x.out = << >>
     THEN Settled(x, [o |-> InvalidUrl], sessions,
                  PredictResultES(CallHFModelES(InvalidUrl, [timeout |-> NO_TIMEOUT])))
     ELSE \E o \in HFService(x.out[1]) :
            Settled(x, [o |-> o], sessions, PredictResultES(CallHFModelES(o, x.out[1])))

\* POST /api/model/predict, CommonJS variant
PredictStart(body, env) ==
  /\ Accepting
  /\ IF ~Truthy(env.HF_MODEL_URL)
     THEN Reject([route |-> "predict", body |-> body, env |-> env],
                 PredictResult(MissingUrl))
     ELSE Await([route |-> "predict", body |-> body, env |-> env],
                <<HFCall(body, env)>>)

PredictResume(x) ==
  /\ Awaiting(x, "predict")
  /\ \E o \in HFService(x.out[1]) :
       Settled(x, [o |-> o], sessions, PredictResult(CallHFModel(o, x.out[1])))

\* The client has its response: the exchange is over.
Close(x) ==
  /\ x.pc = "done"
  /\ inflight' = inflight (-) SetToBag({x})
  /\ UNCHANGED <<server, db, exits, agentRoutes, sessions>>

Next ==
  \/ \E outcome \in {"connected", "failed"} : ConnectDB(outcome)
  \/ ConnectDBOk
  \/ ConnectDBFail
  \/ \E body \in RunBodies : RunStart(body)
  \/ \E x \in Exchanges : RunResume(x)
  \/ \E session_id \in SessionIds : HistoryStart(session_id)
  \/ \E x \in Exchanges : HistoryResume(x)
  \/ \E session_id \in SessionIds : DeleteStart(session_id)
  \/ \E x \in Exchanges : DeleteResume(x)
  \/ HealthStart
  \/ \E x \in Exchanges : HealthResume(x)
  \/ AgentFallback
  \/ AppHealth
  \/ AppRoot
  \/ \E body \in PredictBodies, env \in EnvES : PredictStartES(body, env)
  \/ \E x \in Exchanges : PredictResumeES(x)
  \/ \E body \in PredictBodies, env \in EnvCJS : PredictStart(body, env)
  \/ \E x \in Exchanges : PredictResume(x)
  \/ \E x \in Exchanges : Close(x)

Spec == Init /\ [][Next]_vars

\* ------------------------------------------------------------- scheduling
\* The continuation of the suspended handler of exchange x.
Resume(x) ==
  /\ x \in Exchanges
  /\ \/ RunResume(x)
     \/ HistoryResume(x)
     \/ DeleteResume(x)
     \/ HealthResume(x)
     \/ PredictResumeES(x)
     \/ PredictResume(x)

\* Every exchange a handler can leave suspended at its await.
Pending ==
  LET Wait(rq, c) == [pc |-> "awaiting", req |-> rq, out |-> <<c>>,
                      got |-> NoOutcome, resp |-> << >>]
  IN  {Wait([route |-> "run", body |-> b], RunCall(b)) :
         b \in {b \in RunBodies : ~RunRejects(b)}}
      \cup {Wait([route |-> "history", params |-> [session_id |-> i]], HistoryCall(i)) :
              i \in SessionIds}
      \cup {Wait([route |-> "delete", params |-> [session_id |-> i]], DeleteCall(i)) :
              i \in SessionIds}
      \cup {Wait([route |-> "health"], HealthCall)}
      \cup {Wait([route |-> "predict", body |-> b, env |-> e], HFCall(b, e)) :
              b \in PredictBodies, e \in {e \in EnvCJS : Truthy(e.HF_MODEL_URL)}}
      \cup {Wait([route |-> "predictES", body |-> b, env |-> e], HFCallES(b, e)) :
              b \in PredictBodies, e \in {e \in EnvES : e.HF_MODEL_URL # Undefined}}
      \cup {[pc |-> "awaiting", req |-> [route |-> "predictES", body |-> b, env |-> e],
              out |-> << >>, got |-> NoOutcome, resp |-> << >>] :
              b \in PredictBodies, e \in {e \in EnvES : e.HF_MODEL_URL = Undefined}}

\* The awaited promise of every suspended handler settles (the upstream
\* answers or refuses, or the call's timeout fires) and the event loop runs
\* the continuation.
LiveSpec == Spec /\ \A x \in Pending : WF_vars(Resume(x))

\* =============================================================== claims
Done(routes) == {x \in Exchanges : x.pc = "done" /\ x.req.route \in routes}

\* The run exchanges whose query is non-empty and whose call has settled.
RunSettled == {x \in Done({"run"}) : x.got # NoOutcome}

\* C1, as stated: for every run request with a non-empty query, whenever the
\* agent service returns a response, the gateway's status is the upstream's
\* status and its body is the upstream's body unmodified.
C1_Relay ==
  \A x \in RunSettled :
    IsHttp(x.got.o) =>
      x.resp = <<[status |-> x.got.o.http.status, body |-> x.got.o.http.data]>>

\* C1, amended: a 2xx response of the agent service is answered with status
\* 200 and the upstream's body unmodified; a non-2xx response is answered with
\* the upstream's status.
C1_RelayAmended ==
  \A x \in RunSettled :
    IsHttp(x.got.o) =>
      IF x.got.o.http.status >= 200 /\ x.got.o.http.status < 300
      THEN x.resp = <<[status |-> 200, body |-> x.got.o.http.data]>>
      ELSE Len(x.resp) = 1 /\ x.resp[1].status = x.got.o.http.status

\* A run request answered 200 although the agent service answered 201.
C1_Witness ==
  \E x \in RunSettled :
    /\ IsHttp(x.got.o)
    /\ x.got.o.http.status = 201
    /\ x.resp[1].status = 200
    /\ x.resp[1].body = x.got.o.http.data

\* C2: every run request whose query is absent or empty is answered with
\* status 400 and the body {error: "query is required"}.
C2_QueryRequired ==
  \A x \in Exchanges :
    (x.req.route = "run" /\ Get(x.req.body, "query") \in {Undefined, S("")}) =>
      /\ x.pc = "done"
      /\ x.resp = <<[status |-> 400, body |-> [error |-> [str |-> "query is required"]]]>>

\* Both cases have been answered: no query at all, and an empty query.
C2_Witness ==
  /\ \E x \in Done({"run"}) : Get(x.req.body, "query") = Undefined /\ x.resp[1].status = 400
  /\ \E x \in Done({"run"}) : Get(x.req.body, "query") = S("") /\ x.resp[1].status = 400

\* C3: a run request with a non-empty query whose connection to the agent
\* service is refused is answered with status 503 and the message that says
\* how to start the backend.
C3_Refused ==
  \A x \in RunSettled :
    x.got.o = Refused =>
      x.resp = <<[status |-> 503,
                  body |-> [error |-> [str |-> "Python backend is not running. Start it with: uvicorn app:app --port 7860"]]]>>

C3_Witness ==
  \E x \in RunSettled : x.got.o = Refused /\ x.resp[1].status = 503

\* C4: a run request with a non-empty query that the agent service answers
\* with a non-2xx status s is answered with status s and a body {error,
\* details} whose details is the upstream's error body.
C4_UpstreamError ==
  \A x \in RunSettled :
    (IsHttp(x.got.o) /\ ~(x.got.o.http.status >= 200 /\ x.got.o.http.status < 300)) =>
      /\ Len(x.resp) = 1
      /\ x.resp[1].status = x.got.o.http.status
      /\ DOMAIN x.resp[1].body = {"error", "details"}
      /\ x.resp[1].body.details = x.got.o.http.data
      /\ "str" \in DOMAIN x.resp[1].body.error

\* The three sources of the error text have been seen: the upstream's detail,
\* the upstream's error, and the fixed text.
C4_Witness ==
  /\ \E x \in RunSettled :
       /\ IsHttp(x.got.o) /\ x.got.o.http.status = 422
       /\ x.resp[1].body.error = x.got.o.http.data.detail
  /\ \E x \in RunSettled :
       /\ IsHttp(x.got.o) /\ x.got.o.http.status = 500
       /\ x.resp[1].body.error = S("Agent execution failed")

\* C5: the health route answers 200 with status "ok" whenever the upstream
\* health call succeeds, whatever status the upstream's body reports, and 503
\* with status "error" on every upstream failure; the upstream's status code
\* is never the answer's.
C5_Health ==
  \A x \in Done({"health"}) :
    /\ Len(x.resp) = 1
    /\ IF IsHttp(x.got.o) /\ x.got.o.http.status >= 200 /\ x.got.o.http.status < 300
       THEN x.resp[1].status = 200 /\ x.resp[1].body.status = S("ok")
       ELSE x.resp[1].status = 503 /\ x.resp[1].body.status = S("error")

\* The upstream reported "degraded" and the answer is "ok"; the upstream
\* answered 500 and the answer is 503.
C5_Witness ==
  /\ \E x \in Done({"health"}) :
       /\ IsHttp(x.got.o) /\ x.got.o.http.data = [status |-> S("degraded")]
       /\ x.resp[1].body.status = S("ok")
  /\ \E x \in Done({"health"}) :
       /\ IsHttp(x.got.o) /\ x.got.o.http.status = 500
       /\ x.resp[1].status = 503

\* The history and delete exchanges, and the URL each one's call must have.
SessionRoutes == {"history", "delete"}

SessionUrl(x) ==
  IF x.req.route = "history"
  THEN "http://localhost:7860/session/" \o x.req.params.session_id \o "/history"
  ELSE "http://localhost:7860/session/" \o x.req.params.session_id

FailedText(x) ==
  IF x.req.route = "history"
  THEN [str |-> "Failed to retrieve session history"]
  ELSE [str |-> "Failed to clear session"]

Is2xx(o) == IsHttp(o) /\ o.http.status >= 200 /\ o.http.status < 300

\* C6, as stated: when the upstream call of a history or delete request fails,
\* the answer's status is the upstream's status if there is one and 500
\* otherwise, and the failure is wrapped as a "failed to retrieve" / "failed
\* to clear" error.
C6_Failure ==
  \A x \in Done(SessionRoutes) :
    ~Is2xx(x.got.o) =>
      /\ Len(x.resp) = 1
      /\ x.resp[1].status = (IF IsHttp(x.got.o) THEN x.got.o.http.status ELSE 500)
      /\ x.resp[1].body.error = FailedText(x)

\* C6, amended: the status is the upstream's status if there is one and 500
\* otherwise; the failure is wrapped as "failed to retrieve" / "failed to
\* clear", with the upstream's body as details, only when the upstream
\* answered, and otherwise the body is {error: the transport error's message}.
C6_FailureAmended ==
  \A x \in Done(SessionRoutes) :
    ~Is2xx(x.got.o) =>
      /\ Len(x.resp) = 1
      /\ IF IsHttp(x.got.o)
         THEN x.resp[1] = [status |-> x.got.o.http.status,
                           body |-> [error |-> FailedText(x),
                                     details |-> x.got.o.http.data]]
         ELSE /\ x.resp[1].status = 500
              /\ DOMAIN x.resp[1].body = {"error"}
              /\ x.resp[1].body.error \in
                   { [str |-> "connect ECONNREFUSED"],
                     [str |-> "timeout of 5000ms exceeded"] }

\* A delete whose connection was refused and a history that timed out, both
\* answered 500 with the transport error's message.
C6_Witness ==
  /\ \E x \in Done({"delete"}) :
       /\ x.got.o = Refused
       /\ x.resp[1] = [status |-> 500, body |-> [error |-> [str |-> "connect ECONNREFUSED"]]]
  /\ \E x \in Done({"history"}) :
       /\ x.got.o = TimedOut
       /\ x.resp[1].status = 500

\* C7, as stated: for a session that does not exist, whatever the shape of its
\* id, the gateway forwards the call unvalidated and its answer is the
\* upstream's answer, status and body, verbatim.
C7_Verbatim ==
  \A x \in Exchanges :
    x.req.route \in SessionRoutes =>
      /\ Len(x.out) = 1
      /\ x.out[1].url = SessionUrl(x)
      /\ (x.pc = "done" /\ IsHttp(x.got.o) /\ ~x.got.known) =>
           x.resp = <<[status |-> x.got.o.http.status, body |-> x.got.o.http.data]>>

\* C7, amended: the call is forwarded unvalidated for every id; a 2xx answer
\* of the upstream for the missing session is answered 200 with the upstream's
\* body unmodified, and a non-2xx answer with status s is answered with status
\* s and the upstream's body wrapped as {error, details}.
C7_VerbatimAmended ==
  \A x \in Exchanges :
    x.req.route \in SessionRoutes =>
      /\ Len(x.out) = 1
      /\ x.out[1].url = SessionUrl(x)
      /\ (x.pc = "done" /\ IsHttp(x.got.o) /\ ~x.got.known) =>
           IF Is2xx(x.got.o)
           THEN x.resp = <<[status |-> 200, body |-> x.got.o.http.data]>>
           ELSE x.resp = <<[status |-> x.got.o.http.status,
                            body |-> [error |-> FailedText(x),
                                      details |-> x.got.o.http.data]]>>

\* The id "a/b" was never created: its history was reported not found, and its
\* delete was answered as cleared.
C7_Witness ==
  /\ \E x \in Done({"history"}) :
       /\ x.req.params.session_id = "a/b" /\ ~x.got.known
       /\ IsHttp(x.got.o) /\ x.got.o.http.status = 404
       /\ x.resp[1].status = 404
  /\ \E x \in Done({"delete"}) :
       /\ x.req.params.session_id = "a/b" /\ ~x.got.known
       /\ Is2xx(x.got.o)
       /\ x.resp[1].body = x.got.o.http.data

PredictRoutes == {"predict", "predictES"}

\* The predict exchanges whose call has settled.
PredictSettled(routes) == {x \in Done(routes) : x.got # NoOutcome}

\* C8: for every predict request that the inference endpoint answers
\* successfully with body r, the answer's body is {success: true, result: r}.
C8_SuccessEnvelope ==
  \A x \in PredictSettled(PredictRoutes) :
    Is2xx(x.got.o) =>
      /\ Len(x.resp) = 1
      /\ x.resp[1].body = [success |-> [bool |-> TRUE], result |-> x.got.o.http.data]

\* C9: for every predict request with body b, the payload of the outbound
\* POST is b.
C9_PayloadUnchanged ==
  \A x \in Exchanges :
    (x.req.route \in PredictRoutes /\ x.out # << >>) => x.out[1].data = x.req.body

\* The names under which a JSON value holds its scalar.
LeafKeys == {"str", "num", "bool", "null", "undefined", "tpl"}

RECURSIVE Contains(_, _)
\* b is v or a part of v
Contains(v, b) ==
  \/ v = b
  \/ \E k \in DOMAIN v \ LeafKeys : Contains(v[k], b)

\* C10: when the inference endpoint echoes the payload it receives, the body
\* the predict route returns contains the echoed payload, and in it the
\* request's body b, unchanged.
C10_RoundTrip ==
  \A x \in PredictSettled(PredictRoutes) :
    (x.out # << >> /\ x.got.o = [http |-> [status |-> 200, data |-> x.out[1].data]]) =>
      /\ Len(x.resp) = 1
      /\ x.resp[1].status = 200
      /\ Contains(x.resp[1].body, x.got.o.http.data)
      /\ Contains(x.got.o.http.data, x.req.body)

\* {input: "x"} came back, through either variant of the route.
C10_Witness ==
  /\ \E x \in PredictSettled({"predict"}) :
       /\ x.req.body = [input |-> [str |-> "x"]]
       /\ x.got.o = [http |-> [status |-> 200, data |-> x.out[1].data]]
       /\ Contains(x.resp[1].body, [input |-> [str |-> "x"]])
  /\ \E x \in PredictSettled({"predictES"}) :
       /\ x.out # << >>
       /\ x.req.body = [input |-> [str |-> "x"]]
       /\ x.got.o = [http |-> [status |-> 200, data |-> x.out[1].data]]
       /\ Contains(x.resp[1].body, [input |-> [str |-> "x"]])

\* The predict exchanges handled with HF_MODEL_URL not configured.
Unconfigured ==
  {x \in Exchanges : x.req.route \in PredictRoutes /\ ~Truthy(x.req.env.HF_MODEL_URL)}

\* C11: with HF_MODEL_URL not configured the server still listens and takes
\* requests, and every POST /api/model/predict request is answered with
\* status 503 without an outbound call being made.
C11_MissingUrl ==
  \A x \in Unconfigured :
     /\ server = "listening"
     /\ x.out = << >>
     /\ x.pc = "done" => Len(x.resp) = 1 /\ x.resp[1].status = 503

\* The predict exchanges whose outbound call was made and failed.
PredictFailed ==
  {x \in PredictSettled(PredictRoutes) : x.out # << >> /\ ~Is2xx(x.got.o)}

\* C12: a POST /api/model/predict request whose outbound call fails is
\* answered with the upstream status and an error message built from the
\* upstream status and body when the endpoint returned a non-2xx response,
\* and with status 500 when the failure carried no upstream response.
C12_UpstreamStatus ==
  \A x \in PredictFailed :
     LET o == x.got.o
         r == x.resp[1]
     IN  /\ Len(x.resp) = 1
         /\ IsHttp(o) =>
              /\ r.status = o.http.status
              /\ r.body.error =
                   [tpl |-> "HF call failed (${status}): ${JSON.stringify(data)}",
                    status |-> [num |-> o.http.status], data |-> o.http.data]
         /\ ~IsHttp(o) => r.status = 500

\* The exchanges whose outbound call met a transport error: the connection
\* was refused, or the call timed out, with no upstream HTTP response.
Transport ==
  {x \in Exchanges : x.pc = "done" /\ x.got # NoOutcome /\ x.got.o \in {Refused, TimedOut}}

\* C13 as stated: on every proxy route an upstream transport error is
\* answered with status 503.
C13_Transport503 ==
  \A x \in Transport : Len(x.resp) = 1 /\ x.resp[1].status = 503

\* C13: an upstream transport error is answered with status 503 on agent
\* health, and on agent run when the connection was refused; a timeout on
\* agent run and every transport error on history, delete and model predict
\* are answered with status 500.
C13_TransportAmended ==
  \A x \in Transport :
     /\ Len(x.resp) = 1
     /\ "error" \in DOMAIN x.resp[1].body
     /\ x.resp[1].status =
          IF \/ x.req.route = "health"
             \/ x.req.route = "run" /\ x.got.o = [neterr |-> "ECONNREFUSED"]
          THEN 503
          ELSE 500

C13_Witness ==
  /\ \E x \in Transport :
       /\ x.req.route = "run"
       /\ x.got.o = [neterr |-> "ECONNABORTED"]
       /\ x.resp[1].status = 500
  /\ \E x \in Transport :
       /\ x.req.route \in {"history", "delete", "predict", "predictES"}
       /\ x.got.o = [neterr |-> "ECONNREFUSED"]
       /\ x.resp[1].status = 500

\* A JSON object: a record of properties, not a string, number, boolean or null.
IsObject(v) == DOMAIN v \cap LeafKeys = {}

\* The responses written so far, on every route.
Responses == UNION {{x.resp[i] : i \in 1..Len(x.resp)} : x \in Exchanges}

Deletes == Done({"delete"})

\* C15: the gateway keeps no state about sessions.  Two DELETE requests whose
\* upstream replies agree are answered alike, whatever passed through the
\* gateway before; so the second DELETE of a session is answered exactly as
\* the upstream's reply for a missing session is answered: relayed with
\* status 200 when that reply is 2xx, wrapped under its status otherwise.
C15_Stateless ==
  \A x \in Deletes :
     /\ Len(x.resp) = 1
     /\ \A y \in Deletes : x.got.o = y.got.o => x.resp = y.resp
     /\ ~x.got.known /\ IsHttp(x.got.o) =>
          x.resp[1] =
            IF Is2xx(x.got.o)
            THEN [status |-> 200, body |-> x.got.o.http.data]
            ELSE [status |-> x.got.o.http.status,
                  body |-> [error |-> [str |-> "Failed to clear session"],
                            details |-> x.got.o.http.data]]

\* A session was cleared through the gateway, and a second DELETE for the
\* same id found it missing upstream.
C15_Witness ==
  \E x \in Deletes, y \in Deletes :
     /\ x.req = y.req
     /\ x.got.known /\ Is2xx(x.got.o) /\ x.resp[1].status = 200
     /\ ~y.got.known /\ IsHttp(y.got.o) /\ y.got.o.http.status = 404
     /\ y.resp[1].status = 404
     /\ y.req.params.session_id \notin sessions

\* The exchanges whose awaited call has settled as a failure.
Failed == {x \in Exchanges : x.pc = "done" /\ x.got # NoOutcome /\ ~Is2xx(x.got.o)}

\* C16: no retry.  Every inbound request, on every route and for every
\* upstream outcome, causes at most one outbound call, and a failed call is
\* reported to the caller with an error status, no second call being made.
C16_NoRetry ==
  /\ \A x \in Exchanges : Len(x.out) <= 1
  /\ \A x \in Failed :
       /\ Len(x.resp) = 1
       /\ x.resp[1].status >= 400

C16_Witness ==
  /\ \E x \in Failed :
       x.got.o = [neterr |-> "ECONNABORTED"] /\ Len(x.out) = 1 /\ Len(x.resp) = 1
  /\ \E x \in Failed :
       IsHttp(x.got.o) /\ Len(x.out) = 1 /\ Len(x.resp) = 1

\* C17: every inbound request on any route eventually receives exactly one
\* response, given that every awaited outbound call settles: each exchange
\* left suspended at its await is eventually answered, an exchange has one
\* response exactly when its handler is done, and none has two.
C17_Responds ==
  /\ [](\A x \in Exchanges :
          /\ x.pc = "awaiting" => x \in Pending /\ x.resp = << >>
          /\ x.pc = "done" => Len(x.resp) = 1)
  /\ \A a \in Pending :
       (a \in Exchanges) ~>
         (\E d \in Exchanges : d.pc = "done" /\ d.req = a.req /\ Len(d.resp) = 1)

C17_Witness ==
  \E x \in Exchanges : \E d \in Exchanges :
     /\ x.pc = "awaiting" /\ x \in Pending
     /\ d.pc = "done" /\ d.got # NoOutcome /\ Len(d.resp) = 1
     /\ d.req.route = "predict"

\* The settlement of x's awaited call, if x made one.
Outcome(x) == IF x.got = NoOutcome THEN NoOutcome ELSE x.got.o

Answered == {x \in Exchanges : x.pc = "done"}

\* C18: under every interleaving of concurrently handled requests the
\* response to a request is determined by that request and by the upstream
\* reply to its own call: two exchanges with the same request and the same
\* reply have the same response whatever else was in flight, and a step of
\* one handler leaves every other exchange as it was.
C18_Independent ==
  /\ [](\A x \in Answered : \A y \in Answered :
          (/\ x.req.route = y.req.route
           /\ x.req = y.req
           /\ Outcome(x) = Outcome(y)) => x.resp = y.resp)
  /\ [][/\ BagCardinality(inflight (-) inflight') <= 1
        /\ BagCardinality(inflight' (-) inflight) <= 1]_vars

\* Two requests handled concurrently: the same request twice with the same
\* upstream reply, both answered.
C18_Witness ==
  \E x \in Answered :
     /\ x.got # NoOutcome
     /\ CopiesIn(x, inflight) = 2

\* The exchanges whose handler passed an error to next(err): a run call that
\* failed without a response and was not refused, a history or delete call
\* that failed without a response, and every failure of the CommonJS
\* predict route.
Delegated ==
  {x \in Answered :
     \/ x.req.route = "run" /\ x.got # NoOutcome /\ x.got.o = [neterr |-> "ECONNABORTED"]
     \/ x.req.route \in SessionRoutes /\ ~IsHttp(x.got.o)
     \/ x.req.route = "predict" /\ (x.got = NoOutcome \/ ~Is2xx(x.got.o))}

\* The message of the error that x's handler delegated.
DelegatedMessage(x) ==
  IF x.req.route = "predict"
  THEN IF x.got = NoOutcome
       THEN [str |-> "HF_MODEL_URL is missing in .env"]
       ELSE [tpl |-> "HF call failed (${status}): ${JSON.stringify(data)}",
             status |-> [num |-> IF IsHttp(x.got.o) THEN x.got.o.http.status ELSE 500],
             data |-> x.resp[1].body.error.data]
  ELSE IF x.got.o = [neterr |-> "ECONNABORTED"]
  THEN [str |-> "timeout of " \o ToString(x.out[1].timeout) \o "ms exceeded"]
  ELSE [str |-> "connect ECONNREFUSED"]

\* C19 as stated: every error delegated to the catch-all error handler is
\* answered with status 500 and {error: the error's message}.
C19_Status500 ==
  \A x \in Delegated :
     x.resp = <<[status |-> 500, body |-> [error |-> DelegatedMessage(x)]]>>

\* C19: every error delegated to the catch-all error handler is answered
\* with {error: the error's message} under the error's statusCode when it
\* has one (the CommonJS predict service sets 503 for a missing URL and the
\* upstream status for a non-2xx reply), and under status 500 otherwise.
C19_StatusCode ==
  \A x \in Delegated :
     x.resp =
       <<[status |-> IF x.req.route # "predict" THEN 500
                     ELSE IF x.got = NoOutcome THEN 503
                     ELSE IF IsHttp(x.got.o) THEN x.got.o.http.status
                     ELSE 500,
          body |-> [error |-> DelegatedMessage(x)]]>>

C19_Witness ==
  /\ \E x \in Delegated : x.req.route = "predict" /\ x.resp[1].status = 503
  /\ \E x \in Delegated : x.req.route # "predict" /\ x.resp[1].status = 500

\* The run exchanges whose request was accepted: the call went out.
RunAccepted == {x \in Exchanges : x.req.route = "run" /\ x.out # << >>}

\* C20 as stated: the payload sent to the agent service is {session_id,
\* query}, query being the caller's query and session_id the caller's
\* session_id as supplied, null exactly when the caller supplied none
\* (the property is absent or null).
C20_Payload ==
  \A x \in RunAccepted :
     LET d == x.out[1].data
         b == x.req.body
         none == \/ "session_id" \notin DOMAIN b
                 \/ b.session_id = [null |-> TRUE]
     IN  /\ DOMAIN d = {"session_id", "query"}
         /\ d.query = b.query
         /\ d.session_id = IF none THEN [null |-> TRUE] ELSE b.session_id

\* C20: the payload sent to the agent service is {session_id, query}, query
\* being the caller's query and session_id the caller's session_id when
\* that is truthy, and null when it is absent, null or another falsy value
\* such as the empty string.
C20_PayloadAmended ==
  \A x \in RunAccepted :
     LET d == x.out[1].data
         b == x.req.body
         falsy == \/ "session_id" \notin DOMAIN b
                  \/ b.session_id \in {[null |-> TRUE], [str |-> ""], [num |-> 0],
                                       [bool |-> FALSE], [undefined |-> TRUE]}
     IN  /\ DOMAIN d = {"session_id", "query"}
         /\ d.query = b.query
         /\ d.session_id = IF falsy THEN [null |-> TRUE] ELSE b.session_id

C20_Witness ==
  /\ \E x \in RunAccepted :
       /\ x.req.body = [session_id |-> [str |-> ""], query |-> [str |-> "q1"]]
       /\ x.out[1].data = [session_id |-> [null |-> TRUE], query |-> [str |-> "q1"]]
  /\ \E x \in RunAccepted :
       /\ x.req.body = [session_id |-> [str |-> "s1"], query |-> [str |-> "q1"]]
       /\ x.out[1].data = x.req.body

Runs == {x \in Exchanges : x.req.route = "run"}

\* C21: validation precedes forwarding on POST /api/agent/run.  An exchange
\* answered with the 400 "query is required" response has made no outbound
\* call, and every outbound /run call carries a non-empty query (neither
\* absent, null nor the empty string), the one the caller sent.
C21_ValidateFirst ==
  \A x \in Runs :
     /\ (\E i \in 1..Len(x.resp) :
           x.resp[i] = [status |-> 400,
                        body |-> [error |-> [str |-> "query is required"]]])
          => x.out = << >>
     /\ \A i \in 1..Len(x.out) :
          /\ x.out[i].url = "http://localhost:7860/run"
          /\ x.out[i].data.query \notin
               {[undefined |-> TRUE], [null |-> TRUE], [str |-> ""]}
          /\ x.out[i].data.query = x.req.body.query

C21_Witness ==
  /\ \E x \in Runs :
       /\ x.req.body = [session_id |-> [str |-> "s1"], query |-> [str |-> ""]]
       /\ x.resp = <<[status |-> 400, body |-> [error |-> [str |-> "query is required"]]]>>
       /\ x.out = << >>
  /\ \E x \in Runs :
       /\ Len(x.out) = 1
       /\ x.out[1].data.query = [str |-> "q1"]

\* C22: start-up ordering.  The server listens, and so serves a request
\* (GET /health included), only after the connection to the document store
\* has succeeded; once the connection has failed the only step of the process
\* is its exit with code 1, and an exited process never listens.
C22_StartupOrder ==
  /\ [](/\ server = "listening" => db = "connected"
        /\ inflight # EmptyBag => server = "listening" /\ db = "connected"
        /\ server = "exited" <=> exits = <<1>>
        /\ server = "exited" => db = "failed"
        /\ exits \in {<< >>, <<1>>})
  /\ [][/\ server' = "listening" => db = "connected"
        /\ db = "failed" =>
             \/ server = "starting" /\ server' = "exited" /\ exits' = <<1>>
             \/ server = "exited" /\ UNCHANGED vars]_vars

\* GET /health has been served, the connection having succeeded.
C22_Witness ==
  /\ db = "connected"
  /\ server = "listening"
  /\ \E x \in Done({"apphealth"}) :
       x.resp = <<[status |-> 200, body |-> [status |-> [str |-> "ok"]]]>>

====
